---- MODULE Spec2Model ----
(***************************************************************************)
(* Model of src-tauri/src/tree/mod.rs: Tree::init / Tree::traverse.        *)
(* Worker threads of the parallel walk send Ongoing(node) on an unbounded  *)
(* channel, the orchestrating thread sends Done after the walk returned,   *)
(* and one consumer thread fills the arena and the `branches` map and then *)
(* links the nodes with assemble_tree.                                     *)
(***************************************************************************)
EXTENDS Integers, Sequences, FiniteSets, TLC

VARIABLES
  fs,         \* the static directory tree under `dir`: set of [path, is_dir]
  max_depth,  \* the `depth` argument: None or Some(k)
  records,    \* the entry records this traversal's workers will visit
  pending,    \* records no worker has visited yet
  inflight,   \* records built by a worker's callback and not yet sent
  chan,       \* the unbounded channel (tx, rx): messages sent, not received
  pc_main,    \* orchestrating thread: "walk", "send_done", "join", "returned"
  pc_cons,    \* consumer: "recv", "root", "assemble", "finished", "panicked"
  tree,       \* the arena: node id i is tree[i] = [data, parent, children]
  branches,   \* HashMap<PathBuf, Vec<NodeId>>: path -> sequence of node ids
  root_id,    \* Option<NodeId> of the consumer (NoId = None)
  stack,      \* call stack of assemble_tree
  res,        \* the consumer closure's result
  ret,        \* what Tree::init returned to the caller
  done_sent,  \* history: number of Done messages sent so far
  late_send,  \* history: an Ongoing was sent after a Done
  got_done,   \* history: the consumer has received Done
  linked,     \* history: the <<parent id, child id>> pairs appended so far
  at_done,    \* history: `branches` as it was when Done was received
  run,        \* which call of Tree::init over fs this is
  prev        \* summary of the Tree the previous call returned

vars == <<fs, max_depth, records, pending, inflight, chan, pc_main, pc_cons,
          tree, branches, root_id, stack, res, ret, done_sent, late_send,
          got_done, linked, at_done, run, prev>>

----------------------------------------------------------------------------
(* Bounds *)

MaxEntries == 4
MaxRecords == 3
NumThreads == 2
MaxDup == 4

----------------------------------------------------------------------------
(* Option values and paths.  A path is the sequence of its components:     *)
(* <<>> is "/", <<"r">> is "/r", <<"r","a">> is "/r/a".                    *)

None == <<>>
Some(x) == <<x>>
IsSome(o) == Len(o) = 1
Unwrap(o) == o[1]

NoId == 0

Names == {"a", "b"}
RootPath == <<"r">>

\* Path::parent(): None for "/", otherwise the path without its last component
ParentPath(p) == IF Len(p) = 0 THEN None ELSE Some(SubSeq(p, 1, Len(p) - 1))

----------------------------------------------------------------------------
(* The file system and the records of a walk *)

DirsOf(t) == {e \in t : e.is_dir}
PathsOf(t) == {e.path : e \in t}

\* all ways to add one entry inside a directory of t
Extend(t) ==
  {t \cup {[path |-> Append(d.path, nm), is_dir |-> k]} :
     <<d, nm, k>> \in {x \in DirsOf(t) \X Names \X BOOLEAN :
                          Append(x[1].path, x[2]) \notin PathsOf(t)}}

RECURSIVE TreesUpTo(_)
TreesUpTo(n) ==
  IF n <= 1
    THEN {{[path |-> RootPath, is_dir |-> k]} : k \in BOOLEAN}
    ELSE LET smaller == TreesUpTo(n - 1)
         IN  smaller \cup UNION {Extend(t) : t \in smaller}

DepthOf(p) == Len(p) - Len(RootPath)

\* the `depth` argument of Tree::init
DepthArgs == {None} \cup {Some(k) : k \in 0..1}

\* faulty variant: the walker is built without max_depth(depth)
WithinDepthIgnored(p, md) == TRUE

\* line 160, max_depth(depth): entries deeper than the limit are not visited
WithinDepth(p, md) == IF IsSome(md) THEN DepthOf(p) <= Unwrap(md) ELSE TRUE

\* Node built by the visitor callback from a directory entry
NodeOf(e) ==
  [path |-> e.path, depth |-> DepthOf(e.path),
   parent |-> ParentPath(e.path), is_dir |-> e.is_dir]

WalkRecords(t, md) == {NodeOf(e) : e \in {x \in t : WithinDepth(x.path, md)}}

\* Entry records as the data model allows them, for a stream that is not
\* produced by a walk: the parent path is absent only in a depth-0 record
StreamPaths == {RootPath, Append(RootPath, "a")}

StreamRecords ==
  {r \in [path : StreamPaths, depth : 0..1,
          parent : {None} \cup {ParentPath(p) : p \in StreamPaths},
          is_dir : BOOLEAN] :
     /\ r.parent \in {None, ParentPath(r.path)}
     /\ (r.parent = None => r.depth = 0)}

SubsetsUpTo(S, n) == {T \in SUBSET S : Cardinality(T) <= n /\ T # {}}

\* records with duplicate paths: the directory r/a is reported at two depths
DupPathA == Append(RootPath, "a")
DupPathB == Append(DupPathA, "b")
DupRecords ==
  {[path |-> RootPath, depth |-> 0, parent |-> ParentPath(RootPath), is_dir |-> TRUE],
   [path |-> DupPathA, depth |-> 1, parent |-> Some(RootPath), is_dir |-> TRUE],
   [path |-> DupPathA, depth |-> 2, parent |-> Some(RootPath), is_dir |-> TRUE],
   [path |-> DupPathB, depth |-> 2, parent |-> Some(DupPathA), is_dir |-> FALSE],
   [path |-> DupPathB, depth |-> 3, parent |-> Some(DupPathA), is_dir |-> TRUE]}

----------------------------------------------------------------------------
(* Messages *)

Ongoing(n) == [tag |-> "Ongoing", node |-> n]
Done == [tag |-> "Done"]

----------------------------------------------------------------------------
(* Initial states *)

Fresh ==
  /\ pending = records
  /\ inflight = {}
  /\ chan = <<>>
  /\ pc_main = "walk"
  /\ pc_cons = "recv"
  /\ tree = <<>>
  /\ branches = <<>>
  /\ root_id = NoId
  /\ stack = <<>>
  /\ res = "Pending"
  /\ ret = "Pending"
  /\ done_sent = 0
  /\ late_send = FALSE
  /\ got_done = FALSE
  /\ linked = <<>>
  /\ at_done = <<>>

\* Tree::init(dir, depth, _) over a static directory tree
Init ==
  /\ fs \in TreesUpTo(MaxEntries)
  /\ max_depth \in DepthArgs
  /\ records = WalkRecords(fs, max_depth)
  /\ run = 1
  /\ prev = <<>>
  /\ Fresh

\* the consumer fed an arbitrary stream of entry records
InitStream ==
  /\ fs = {}
  /\ max_depth = None
  /\ records \in SubsetsUpTo(StreamRecords, MaxRecords)
  /\ run = 1
  /\ prev = <<>>
  /\ Fresh

\* the consumer fed a stream in which paths occur more than once
InitDup ==
  /\ fs = {}
  /\ max_depth = None
  /\ records \in SubsetsUpTo(DupRecords, MaxDup)
  /\ run = 1
  /\ prev = <<>>
  /\ Fresh

\* Tree::init(dir, depth, _) called; dir may not exist (fs = {})
InitSetup ==
  /\ fs \in TreesUpTo(MaxEntries) \cup {{}}
  /\ max_depth \in DepthArgs
  /\ records = WalkRecords(fs, max_depth)
  /\ run = 1
  /\ prev = <<>>
  /\ pending = records
  /\ inflight = {}
  /\ chan = <<>>
  /\ pc_main = "new_walker"
  /\ pc_cons = "unspawned"
  /\ tree = <<>>
  /\ branches = <<>>
  /\ root_id = NoId
  /\ stack = <<>>
  /\ res = "Pending"
  /\ ret = "Pending"
  /\ done_sent = 0
  /\ late_send = FALSE
  /\ got_done = FALSE
  /\ linked = <<>>
  /\ at_done = <<>>

----------------------------------------------------------------------------
(* new_walker: fs::canonicalize(dir)?, then fs::metadata(&root)?           *)

\* canonicalize fails when dir does not exist; metadata may fail after it
WalkerOutcomes(t) == IF t = {} THEN {"Unresolved"} ELSE {"Ok", "NotFound"}

\* faulty variant: the channel and the consumer thread are created before
\* new_walker is called
NewWalkerAfterSpawn ==
  /\ pc_main = "new_walker"
  /\ \E o \in WalkerOutcomes(fs) :
       IF o = "Ok"
         THEN /\ pc_main' = "walk"
              /\ pc_cons' = "recv"
              /\ UNCHANGED ret
         ELSE /\ pc_main' = "returned"
              /\ pc_cons' = "recv"
              /\ ret' = o
  /\ UNCHANGED <<fs, max_depth, records, pending, inflight, chan, tree,
                 branches, root_id, stack, res, done_sent, late_send, got_done,
                 linked, at_done, run, prev>>

\* lines 52-58: new_walker(..)?, then the channel and the consumer thread
NewWalker ==
  /\ pc_main = "new_walker"
  /\ \E o \in WalkerOutcomes(fs) :
       IF o = "Ok"
         THEN /\ pc_main' = "walk"
              /\ pc_cons' = "recv"
              /\ UNCHANGED ret
         ELSE /\ pc_main' = "returned"
              /\ ret' = o
              /\ UNCHANGED pc_cons
  /\ UNCHANGED <<fs, max_depth, records, pending, inflight, chan, tree,
                 branches, root_id, stack, res, done_sent, late_send, got_done,
                 linked, at_done, run, prev>>

----------------------------------------------------------------------------
(* Producers: the worker threads of walker.visit                           *)

\* faulty variant: channel::bounded(1), a send waits while the channel is full
CanSendBounded(ch) == Len(ch) < 1

\* line 53, channel::unbounded: a send never waits for room
CanSend(ch) == TRUE

\* a worker takes an entry and its callback builds the record
ProducerVisit ==
  /\ pc_main = "walk"
  /\ Cardinality(inflight) < NumThreads
  /\ \E r \in pending :
       /\ pending' = pending \ {r}
       /\ inflight' = inflight \cup {r}
  /\ UNCHANGED <<fs, max_depth, records, chan, pc_main, pc_cons, tree,
                 branches, root_id, stack, res, ret, done_sent, late_send,
                 got_done, run, prev, linked,
                 at_done>>

\* the callback sends Ongoing(node); the channel is unbounded, rx is alive
ProducerSend ==
  /\ CanSend(chan)
  /\ \E r \in inflight :
       /\ inflight' = inflight \ {r}
       /\ chan' = Append(chan, Ongoing(r))
  /\ late_send' = IF done_sent > 0 THEN TRUE ELSE late_send
  /\ UNCHANGED <<fs, max_depth, records, pending, pc_main, pc_cons, tree,
                 branches, root_id, stack, res, ret, done_sent, got_done,
                 run, prev, linked,
                 at_done>>

----------------------------------------------------------------------------
(* Orchestrating thread *)

\* faulty variant: the orchestrating thread does not wait for the workers
WalkReturnEarly ==
  /\ pc_main = "walk"
  /\ pc_main' = "send_done"
  /\ UNCHANGED <<fs, max_depth, records, pending, inflight, chan, pc_cons,
                 tree, branches, root_id, stack, res, ret, done_sent,
                 late_send, got_done, linked, at_done, run, prev>>

\* walker.visit returns when every worker has finished
WalkReturn ==
  /\ pc_main = "walk"
  /\ pending = {}
  /\ inflight = {}
  /\ pc_main' = "send_done"
  /\ UNCHANGED <<fs, max_depth, records, pending, inflight, chan, pc_cons,
                 tree, branches, root_id, stack, res, ret, done_sent,
                 late_send, got_done, run, prev, linked,
                 at_done>>

\* faulty variant: Done is sent before walker.visit is called
SendDoneBeforeWalk ==
  /\ pc_main = "walk"
  /\ done_sent = 0
  /\ chan' = Append(chan, Done)
  /\ done_sent' = done_sent + 1
  /\ UNCHANGED <<fs, max_depth, records, pending, inflight, pc_main, pc_cons,
                 tree, branches, root_id, stack, res, ret, late_send, got_done,
                 run, prev, linked,
                 at_done>>

\* tx.send(TraversalState::Done).unwrap()
SendDone ==
  /\ pc_main = "send_done"
  /\ CanSend(chan)
  /\ chan' = Append(chan, Done)
  /\ done_sent' = done_sent + 1
  /\ pc_main' = "join"
  /\ UNCHANGED <<fs, max_depth, records, pending, inflight, pc_cons, tree,
                 branches, root_id, stack, res, ret, late_send, got_done,
                 run, prev, linked,
                 at_done>>

\* res.join().unwrap(): the closure's result becomes the result of init
Join ==
  /\ pc_main = "join"
  /\ pc_cons \in {"finished", "panicked"}
  /\ pc_main' = "returned"
  /\ ret' = IF pc_cons = "panicked" THEN "Panic" ELSE res
  /\ UNCHANGED <<fs, max_depth, records, pending, inflight, chan, pc_cons,
                 tree, branches, root_id, stack, res, done_sent, late_send,
                 got_done, run, prev, linked,
                 at_done>>

----------------------------------------------------------------------------
(* Consumer: the receive loop *)

NewNode(n) == [data |-> n, parent |-> NoId, children |-> <<>>]

HasKey(m, k) == k \in DOMAIN m
Insert(m, k, v) == [x \in (DOMAIN m) \cup {k} |-> IF x = k THEN v ELSE m[x]]
Remove(m, k) == [x \in (DOMAIN m) \ {k} |-> m[x]]

\* faulty variant: no bucket is created for a received directory
EnsureBucketMissing(m, n) == m

\* lines 65-70: a directory gets a bucket for its own path
EnsureBucket(m, n) ==
  IF n.is_dir /\ ~HasKey(m, n.path) THEN Insert(m, n.path, <<>>) ELSE m

\* faulty variant: entry(parent).or_insert(vec![id]).push(id), the first child of a
\* parent without a bucket is pushed twice
AccumulatePushTwice(m, parent, id) ==
  IF HasKey(m, parent)
    THEN [m EXCEPT ![parent] = Append(@, id)]
    ELSE Insert(m, parent, <<id, id>>)

\* faulty variant: every record is accumulated under the root path
AccumulateUnderRoot(m, parent, id) ==
  IF HasKey(m, RootPath)
    THEN [m EXCEPT ![RootPath] = Append(@, id)]
    ELSE Insert(m, RootPath, <<>>)

\* lines 82-87: push onto the parent's bucket, or insert an empty bucket
Accumulate(m, parent, id) ==
  IF HasKey(m, parent)
    THEN [m EXCEPT ![parent] = Append(@, id)]
    ELSE Insert(m, parent, <<>>)

\* faulty variant: the depth test is off by one
IsRootDepthOne(n) == n.is_dir /\ n.depth <= 1

\* faulty variant: the depth test is missing
IsRootAnyDir(n) == n.is_dir

\* lines 65 and 72: a directory record of depth 0 becomes the root
IsRoot(n) == n.is_dir /\ n.depth = 0

\* one iteration of `while let Ok(Ongoing(node)) = rx.recv()`
ConsumerRecv ==
  /\ pc_cons = "recv"
  /\ chan # <<>>
  /\ chan' = Tail(chan)
  /\ LET msg == Head(chan) IN
       IF msg.tag = "Done"
         THEN /\ pc_cons' = "root"
              /\ got_done' = TRUE
              /\ at_done' = branches
              /\ UNCHANGED <<tree, branches, root_id, res>>
         ELSE LET node == msg.node
                  b1 == EnsureBucket(branches, node)
              IN  IF IsRoot(node)
                    THEN /\ tree' = Append(tree, NewNode(node))
                         /\ root_id' = Len(tree) + 1
                         /\ branches' = b1
                         /\ UNCHANGED <<pc_cons, res, got_done, at_done>>
                    ELSE IF ~IsSome(node.parent)
                      THEN /\ res' = "ExpectedParent"
                           /\ pc_cons' = "finished"
                           /\ branches' = b1
                           /\ UNCHANGED <<tree, root_id, got_done, at_done>>
                      ELSE /\ tree' = Append(tree, NewNode(node))
                           /\ branches' =
                                Accumulate(b1, Unwrap(node.parent), Len(tree) + 1)
                           /\ UNCHANGED <<pc_cons, res, root_id, got_done, at_done>>
  /\ UNCHANGED <<fs, max_depth, records, pending, inflight, pc_main, stack,
                 ret, done_sent, late_send, run, prev, linked>>

----------------------------------------------------------------------------
(* Consumer: assemble_tree, one stack frame per call *)

\* line 115: the call removes the bucket of the current node's path
Frame(m, id) ==
  [node |-> id,
   children |-> IF HasKey(m, tree[id].data.path) THEN m[tree[id].data.path] ELSE <<>>,
   i |-> 1, j |-> 1]

\* faulty variant: the bucket is read but left in the map
AfterCallKeep(m, id) == m

\* line 115: branches.remove(path) takes the bucket out of the map
AfterCall(m, id) ==
  IF HasKey(m, tree[id].data.path) THEN Remove(m, tree[id].data.path) ELSE m

\* lines 90-92: root_id.ok_or("MissingRoot")?, then assemble_tree(root)
ConsumerRoot ==
  /\ pc_cons = "root"
  /\ IF root_id = NoId
       THEN /\ res' = "MissingRoot"
            /\ pc_cons' = "finished"
            /\ UNCHANGED <<stack, branches>>
       ELSE /\ stack' = <<Frame(branches, root_id)>>
            /\ branches' = AfterCall(branches, root_id)
            /\ pc_cons' = "assemble"
            /\ UNCHANGED res
  /\ UNCHANGED <<fs, max_depth, records, pending, inflight, chan, pc_main,
                 tree, root_id, ret, done_sent, late_send, got_done, run, prev, linked,
                 at_done>>

Top == stack[Len(stack)]
SetTop(f) == [stack EXCEPT ![Len(stack)] = f]

\* faulty variant: the first loop does not recurse into directory children
AssembleScanNoRecurse ==
  /\ pc_cons = "assemble"
  /\ stack # <<>>
  /\ Top.i <= Len(Top.children)
  /\ stack' = SetTop([Top EXCEPT !.i = @ + 1])
  /\ UNCHANGED <<fs, max_depth, records, pending, inflight, chan, pc_main,
                 pc_cons, tree, branches, root_id, res, ret, done_sent,
                 late_send, got_done, linked, at_done, run, prev>>

\* lines 116-127: the first loop, recursing into each directory child
AssembleScan ==
  /\ pc_cons = "assemble"
  /\ stack # <<>>
  /\ Top.i <= Len(Top.children)
  /\ LET child == Top.children[Top.i]
         next == SetTop([Top EXCEPT !.i = @ + 1])
     IN  IF tree[child].data.is_dir
           THEN /\ stack' = Append(next, Frame(branches, child))
                /\ branches' = AfterCall(branches, child)
           ELSE /\ stack' = next
                /\ UNCHANGED branches
  /\ UNCHANGED <<fs, max_depth, records, pending, inflight, chan, pc_main,
                 pc_cons, tree, root_id, res, ret, done_sent, late_send,
                 got_done, run, prev, linked,
                 at_done>>

RECURSIVE IsAncestor(_, _, _)
\* a is n or an ancestor of n in arena t
IsAncestor(t, a, n) ==
  IF n = NoId THEN FALSE
  ELSE IF a = n THEN TRUE
  ELSE IsAncestor(t, a, t[n].parent)

RemoveId(s, id) == SelectSeq(s, LAMBDA x : x # id)

\* faulty variant: the child is appended to the root, not to the current node
AppendChildUnderRoot(t, p, c) ==
  LET detached ==
        [k \in DOMAIN t |->
           IF k = t[c].parent
             THEN [t[k] EXCEPT !.children = RemoveId(@, c)]
             ELSE t[k]]
  IN  [detached EXCEPT ![c].parent = root_id,
                       ![root_id].children = Append(@, c)]

\* faulty variant: prepend, the child becomes the first child of p
AppendChildFirst(t, p, c) ==
  LET detached ==
        [k \in DOMAIN t |->
           IF k = t[c].parent
             THEN [t[k] EXCEPT !.children = RemoveId(@, c)]
             ELSE t[k]]
  IN  [detached EXCEPT ![c].parent = p,
                       ![p].children = <<c>> \o @]

\* NodeId::append: detach the child, then make it the last child of p
AppendChild(t, p, c) ==
  LET detached ==
        [k \in DOMAIN t |->
           IF k = t[c].parent
             THEN [t[k] EXCEPT !.children = RemoveId(@, c)]
             ELSE t[k]]
  IN  [detached EXCEPT ![c].parent = p,
                       ![p].children = Append(@, c)]

\* lines 130-132: the second loop, linking each child under the current node
AssembleLink ==
  /\ pc_cons = "assemble"
  /\ stack # <<>>
  /\ Top.i > Len(Top.children)
  /\ Top.j <= Len(Top.children)
  /\ LET child == Top.children[Top.j] IN
       IF IsAncestor(tree, child, Top.node)
         THEN /\ pc_cons' = "panicked"
              /\ UNCHANGED <<tree, stack, linked>>
         ELSE /\ tree' = AppendChild(tree, Top.node, child)
              /\ linked' = Append(linked, <<Top.node, child>>)
              /\ stack' = SetTop([Top EXCEPT !.j = @ + 1])
              /\ UNCHANGED pc_cons
  /\ UNCHANGED <<fs, max_depth, records, pending, inflight, chan, pc_main,
                 branches, root_id, res, ret, done_sent, late_send, got_done,
                 run, prev, at_done>>

\* the call returns; the outermost return is followed by Ok((tree, root))
AssembleReturn ==
  /\ pc_cons = "assemble"
  /\ stack # <<>>
  /\ Top.i > Len(Top.children)
  /\ Top.j > Len(Top.children)
  /\ stack' = SubSeq(stack, 1, Len(stack) - 1)
  /\ IF Len(stack) = 1
       THEN /\ res' = "Ok"
            /\ pc_cons' = "finished"
       ELSE UNCHANGED <<res, pc_cons>>
  /\ UNCHANGED <<fs, max_depth, records, pending, inflight, chan, pc_main,
                 tree, branches, root_id, ret, done_sent, late_send, got_done,
                 run, prev, linked,
                 at_done>>

----------------------------------------------------------------------------
(* The finished Tree *)

Ids == 1..Len(tree)
PathOfId(id) == tree[id].data.path

\* the (parent path, child path) links of the arena
Links == {<<PathOfId(tree[c].parent), PathOfId(c)>> :
            c \in {x \in Ids : tree[x].parent # NoId}}

\* lines 135-148: the nodes of the root's children, in link order
children_vec ==
  [k \in 1..Len(tree[root_id].children) |-> tree[tree[root_id].children[k]].data]

Summary == [status |-> ret, count |-> Len(tree), links |-> Links]

\* Tree::init is called again over the same directory tree and arguments
InitAgain ==
  /\ pc_main = "returned"
  /\ run = 1
  /\ run' = 2
  /\ prev' = <<Summary>>
  /\ pending' = records
  /\ inflight' = {}
  /\ chan' = <<>>
  /\ pc_main' = "walk"
  /\ pc_cons' = "recv"
  /\ tree' = <<>>
  /\ branches' = <<>>
  /\ root_id' = NoId
  /\ stack' = <<>>
  /\ res' = "Pending"
  /\ ret' = "Pending"
  /\ done_sent' = 0
  /\ late_send' = FALSE
  /\ got_done' = FALSE
  /\ linked' = <<>>
  /\ at_done' = <<>>
  /\ UNCHANGED <<fs, max_depth, records>>

----------------------------------------------------------------------------
(* Specifications *)

Next ==
  \/ ProducerVisit
  \/ ProducerSend
  \/ WalkReturn
  \/ SendDone
  \/ ConsumerRecv
  \/ ConsumerRoot
  \/ AssembleScan
  \/ AssembleLink
  \/ AssembleReturn
  \/ Join

NextTwice == Next \/ InitAgain

Spec == Init /\ [][Next]_vars

SpecTwice == Init /\ [][NextTwice]_vars

SpecStream == InitStream /\ [][Next]_vars

NextSetup == NewWalker \/ Next

\* Tree::init from its first statement
SpecSetup == InitSetup /\ [][NextSetup]_vars

\* a walk, or an arbitrary stream
SpecAny == (Init \/ InitStream) /\ [][Next]_vars

\* the threads run in parallel: none of them is starved
Fairness ==
  /\ WF_vars(ProducerVisit)
  /\ WF_vars(ProducerSend)
  /\ WF_vars(WalkReturn)
  /\ WF_vars(SendDone)
  /\ WF_vars(Join)
  /\ WF_vars(ConsumerRecv)
  /\ WF_vars(ConsumerRoot)
  /\ WF_vars(AssembleScan)
  /\ WF_vars(AssembleLink)
  /\ WF_vars(AssembleReturn)

LiveSpec == InitStream /\ [][Next]_vars /\ Fairness

\* streams with duplicate paths, under the same scheduling
LiveDup == InitDup /\ [][Next]_vars /\ Fairness

----------------------------------------------------------------------------
(* Properties *)

Returned == pc_main = "returned"
ReturnedTree == pc_main = "returned" /\ ret = "Ok"

SeqToSet(q) == {q[k] : k \in 1..Len(q)}
ChildIds(id) == SeqToSet(tree[id].children)
ChildPaths(id) == {PathOfId(c) : c \in ChildIds(id)}
Reachable(id) == IsAncestor(tree, root_id, id)

\* the paths of the entries directly inside directory p of fs
EntriesIn(p) == {e.path : e \in {x \in fs : ParentPath(x.path) = Some(p)}}

\* C1: after a traversal with unlimited depth, every directory node reachable
\* from the root has as children exactly the entries directly inside it.
C1_TreeMatchesFs ==
  (ReturnedTree /\ max_depth = None) =>
    \A id \in Ids :
      (Reachable(id) /\ tree[id].data.is_dir) =>
        ChildPaths(id) = EntriesIn(PathOfId(id))

\* C2: a second run of Tree::init over the same directory tree returns a Tree
\* with the same number of nodes and the same (parent path, child path) links
\* as the first run.
C2_RunsAgree ==
  (run = 2 /\ ReturnedTree /\ prev[1].status = "Ok") =>
    /\ prev[1].count = Len(tree)
    /\ prev[1].links = Links

\* C3: right after the consumer has processed a record of depth > 0, the new
\* node identifier is in the bucket of the record's parent path, whether or
\* not that bucket existed before.
C3_ChildInParentBucket ==
  [][(Len(tree') = Len(tree) + 1 /\ tree'[Len(tree')].data.depth > 0) =>
       LET id == Len(tree')
           parent == Unwrap(tree'[id].data.parent)
       IN  /\ HasKey(branches', parent)
           /\ id \in SeqToSet(branches'[parent])]_vars

\* C4: at most one Done is sent, it is sent only once the walk has returned
\* (no worker has a record left to visit or to send), exactly one has been
\* sent when the orchestrating thread joins, it is the last message of the
\* channel, and once the consumer has received it nothing is left to receive.
C4_DoneLast ==
  /\ done_sent <= 1
  /\ (done_sent = 1 => pending = {} /\ inflight = {})
  /\ (pc_main \in {"join", "returned"} <=> done_sent = 1)
  /\ ~late_send
  /\ \A k \in 1..Len(chan) : chan[k].tag = "Done" => k = Len(chan)
  /\ (got_done => chan = <<>> /\ pc_cons # "recv")

C4_Witness ==
  /\ got_done
  /\ done_sent = 1
  /\ Len(tree) >= 3
  /\ Returned

\* C5: the consumer produces a MissingRoot or ExpectedParent failure only
\* after it has received Done, when no Ongoing message is left unreceived.
C5_FailureAfterDone ==
  (res \in {"MissingRoot", "ExpectedParent"}) =>
    /\ got_done
    /\ chan = <<>>
    /\ pending = {}
    /\ inflight = {}

\* C6: when Done is received and no received record has depth 0, the result
\* is MissingRoot; and a returned Tree's root is the node of a received
\* record of depth 0.
C6_MissingRoot ==
  /\ (pc_cons = "finished" /\ got_done
        /\ \A id \in Ids : tree[id].data.depth # 0) => res = "MissingRoot"
  /\ ReturnedTree => (root_id \in Ids /\ tree[root_id].data.depth = 0)

C6_Witness ==
  /\ Returned
  /\ ret = "MissingRoot"
  /\ Len(tree) >= 2
  /\ \A id \in Ids : tree[id].data.depth # 0

\* C7: in a returned Tree exactly one arena node has depth 0, and it is the
\* node the root identifier names.
C7_OneRoot ==
  ReturnedTree =>
    /\ root_id \in Ids
    /\ {id \in Ids : tree[id].data.depth = 0} = {root_id}

C7_Witness ==
  /\ ReturnedTree
  /\ Len(tree) >= 3
  /\ \E id \in Ids : id # root_id /\ tree[id].data.is_dir

RECURSIVE Descendants(_, _)
\* the nodes reached from the set S by following child links at most k times
Descendants(S, k) ==
  IF k = 0 THEN S
  ELSE Descendants(S \cup UNION {ChildIds(x) : x \in S}, k - 1)

\* C8: in a returned Tree every linked child is a node of the arena, no node
\* was appended twice (under one parent or under two), no node occurs twice
\* in the children lists, and no node reachable from the root is its own
\* descendant.
C8_IsTree ==
  ReturnedTree =>
    /\ \A k \in 1..Len(linked) : linked[k][2] \in Ids /\ linked[k][1] \in Ids
    /\ \A k, l \in 1..Len(linked) : linked[k][2] = linked[l][2] => k = l
    /\ \A p \in Ids : ChildIds(p) \subseteq Ids
    /\ \A p \in Ids :
         Cardinality(ChildIds(p)) = Len(tree[p].children)
    /\ \A p, q \in Ids : p # q => ChildIds(p) \cap ChildIds(q) = {}
    /\ \A n \in Descendants({root_id}, Len(tree)) :
         n \notin Descendants(ChildIds(n), Len(tree))

C8_Witness ==
  /\ ReturnedTree
  /\ Len(linked) >= 2
  /\ \E k \in 1..Len(linked) : linked[k][1] # root_id

\* C9: in a returned Tree every node reachable from the root, other than the
\* root, has the depth of the node it is linked under plus 1.
C9_DepthStep ==
  ReturnedTree =>
    \A id \in Ids :
      (Reachable(id) /\ id # root_id) =>
        tree[id].data.depth = tree[tree[id].parent].data.depth + 1

C9_Witness ==
  /\ ReturnedTree
  /\ \E id \in Ids : Reachable(id) /\ tree[id].data.depth = 2

\* C10: once the parallel walk has returned, Done is sent, the consumer stops
\* and Tree::init returns a Tree or an error to its caller, also when the
\* consumer has stopped with ExpectedParent before everything was received.
C10_InitReturns ==
  (pc_main = "send_done") ~>
    (/\ pc_main = "returned"
     /\ done_sent = 1
     /\ pc_cons = "finished"
     /\ ret \in {"Ok", "MissingRoot", "ExpectedParent"})

C10_Witness ==
  /\ Returned
  /\ ret = "ExpectedParent"
  /\ ~got_done
  /\ chan # <<>>

\* C11: when new_walker fails (dir does not canonicalize, or cannot be
\* statted) Tree::init returns the error with no consumer thread spawned, no
\* message sent, no entry visited and no arena node; and while no consumer is
\* spawned nothing is sent.
C11_SetupErrorFirst ==
  /\ (pc_cons = "unspawned" =>
        /\ chan = <<>>
        /\ done_sent = 0
        /\ ~late_send
        /\ inflight = {}
        /\ pending = records
        /\ tree = <<>>)
  /\ (ret \in {"Unresolved", "NotFound"} =>
        pc_cons = "unspawned" /\ pc_main = "returned")
  /\ (fs = {} => pc_main \in {"new_walker", "returned"})
  /\ ((fs = {} /\ pc_main = "returned") => ret = "Unresolved")

C11_Witness ==
  /\ pc_main = "returned"
  /\ ret = "NotFound"
  /\ Cardinality(records) >= 2

\* the position at which record n was received (arena order = receive order)
ArrivalIndex(n) == CHOOSE i \in Ids : tree[i].data = n

\* C12: children_vec lists the nodes linked under the root, each once, in the
\* order in which their records were received.
C12_ChildrenInArrivalOrder ==
  ReturnedTree =>
    /\ SeqToSet(children_vec) =
         {tree[id].data : id \in {x \in Ids : tree[x].parent = root_id}}
    /\ \A i, j \in 1..Len(children_vec) :
         i < j => ArrivalIndex(children_vec[i]) < ArrivalIndex(children_vec[j])

C12_Witness ==
  /\ ReturnedTree
  /\ Len(children_vec) >= 2

\* C13: with max_depth = Some(K) and a directory tree deeper than K, the
\* returned Tree has no node of depth > K and no node of depth K has a child.
C13_DepthLimit ==
  (ReturnedTree /\ IsSome(max_depth)) =>
    \A id \in Ids :
      /\ tree[id].data.depth <= Unwrap(max_depth)
      /\ (tree[id].data.depth = Unwrap(max_depth) => tree[id].children = <<>>)

C13_Witness ==
  /\ ReturnedTree
  /\ max_depth = Some(1)
  /\ \E e \in fs : DepthOf(e.path) > 1
  /\ \E id \in Ids : tree[id].data.depth = 1 /\ tree[id].data.is_dir
  /\ tree[root_id].children # <<>>

\* the consumer takes an Ongoing record of depth 0 from the channel
RecvDepthZero ==
  /\ pc_cons = "recv"
  /\ chan # <<>>
  /\ Head(chan).tag = "Ongoing"
  /\ Head(chan).node.depth = 0
  /\ chan' = Tail(chan)

\* C14: a received record of depth 0, directory or file, becomes the root:
\* its new node is the root identifier, no failure results from resolving a
\* parent, and no bucket other than the one of its own path is created or
\* changed.
C14_DepthZeroIsRoot ==
  [][RecvDepthZero =>
       /\ Len(tree') = Len(tree) + 1
       /\ root_id' = Len(tree')
       /\ res' = res
       /\ DOMAIN branches' \subseteq (DOMAIN branches) \cup {Head(chan).node.path}
       /\ \A P \in DOMAIN branches : branches'[P] = branches[P]]_vars

\* C15: in a returned Tree the arena holds one node for each record sent
\* during the traversal and nothing else.
C15_ArenaHoldsEveryRecord ==
  ReturnedTree =>
    /\ {tree[id].data : id \in Ids} = records
    /\ Len(tree) = Cardinality(records)
    /\ pending = {}
    /\ inflight = {}

C15_Witness ==
  /\ ReturnedTree
  /\ Cardinality(records) >= 3
  /\ \E id \in Ids : id # root_id /\ tree[id].parent = NoId

\* the identifiers that were in the bucket of path P when Done was received
BucketAtDone(P) == IF HasKey(at_done, P) THEN SeqToSet(at_done[P]) ELSE {}

\* directory d has no bucket left and everything its bucket held is linked
\* under it
SubtreeComplete(d) ==
  /\ ~HasKey(branches, PathOfId(d))
  /\ \A k \in BucketAtDone(PathOfId(d)) : tree[k].parent = d

\* C16: when assemble_tree links a directory under its parent, the bucket of
\* that directory and of every directory below it has been removed and all
\* the identifiers those buckets held are already linked under them.
C16_PostOrder ==
  [][(Len(linked') = Len(linked) + 1) =>
       LET c == linked'[Len(linked')][2] IN
         tree[c].data.is_dir =>
           \A d \in Descendants({c}, Len(tree)) :
             tree[d].data.is_dir => SubtreeComplete(d)]_vars

C16_Witness ==
  \E k \in 1..Len(linked) :
    /\ tree[linked[k][2]].data.is_dir
    /\ tree[linked[k][2]].children # <<>>
    /\ BucketAtDone(PathOfId(linked[k][2])) # {}

\* the records that went through parent accumulation
NonRootIds == {n \in Ids : ~(tree[n].data.is_dir /\ tree[n].data.depth = 0)}
ParentOfId(n) == Unwrap(tree[n].data.parent)

\* received non-root records with parent path P that are not in P's bucket
AbsentFrom(P) ==
  {n \in NonRootIds :
     /\ ParentOfId(n) = P
     /\ ~(HasKey(branches, P) /\ n \in SeqToSet(branches[P]))}

\* before record n, the directory of its parent path or a sibling was received
ReceivedAfterParentOrSibling(n) ==
  \E m \in 1..(n - 1) :
    \/ tree[m].data.is_dir /\ PathOfId(m) = ParentOfId(n)
    \/ m \in NonRootIds /\ ParentOfId(m) = ParentOfId(n)

\* C17: when Done is received, at most one received non-root record per
\* parent path is missing from that path's bucket, and a missing record was
\* received before the directory of its parent path and before any sibling.
C17_AtMostOneDropped ==
  pc_cons = "root" =>
    \A P \in {ParentOfId(n) : n \in NonRootIds} :
      /\ Cardinality(AbsentFrom(P)) <= 1
      /\ \A n \in AbsentFrom(P) : ~ReceivedAfterParentOrSibling(n)

C17_Witness ==
  /\ pc_cons = "root"
  /\ \E n \in NonRootIds : AbsentFrom(ParentOfId(n)) = {n}
  /\ \E n \in NonRootIds :
       /\ ReceivedAfterParentOrSibling(n)
       /\ n \in SeqToSet(branches[ParentOfId(n)])

\* the (bucket path, position) slots of the bucket map
BucketSlots ==
  UNION {{<<P, k>> : k \in 1..Len(branches[P])} : P \in DOMAIN branches}

\* C18: a bucket keyed by path P holds only identifiers of records whose
\* parent path is P, no identifier occurs in two slots of the bucket map, and
\* every link (p, c) made by assembly has parent_path(c) = path(p); so has
\* every parent link of the arena.
C18_BucketsByParentPath ==
  /\ \A s \in BucketSlots :
       /\ branches[s[1]][s[2]] \in Ids
       /\ tree[branches[s[1]][s[2]]].data.parent = Some(s[1])
  /\ \A s, t \in BucketSlots :
       branches[s[1]][s[2]] = branches[t[1]][t[2]] => s = t
  /\ \A k \in 1..Len(linked) :
       tree[linked[k][2]].data.parent = Some(PathOfId(linked[k][1]))
  /\ \A c \in Ids :
       tree[c].parent # NoId => tree[c].data.parent = Some(PathOfId(tree[c].parent))

C18_Witness ==
  /\ ReturnedTree
  /\ \E k \in 1..Len(linked) : linked[k][1] # root_id
  /\ \E k \in 1..Len(linked) : linked[k][1] = root_id

\* C19: assemble_tree terminates, duplicate paths included; a call removes
\* the bucket of its node's path before it visits the members, the members of
\* one bucket are linked under one node only, and when assembly ends no bucket
\* remains for the path of a directory reachable from the root.
C19_AssemblyTerminates ==
  /\ (pc_cons = "assemble") ~> (pc_cons = "finished")
  /\ [][(Len(stack') = Len(stack) + 1) =>
          ~HasKey(branches', PathOfId(stack'[Len(stack')].node))]_vars
  /\ [](\A k, l \in 1..Len(linked) :
          PathOfId(linked[k][1]) = PathOfId(linked[l][1]) =>
            linked[k][1] = linked[l][1])
  /\ []((pc_cons = "finished" /\ res = "Ok") =>
          \A d \in Ids :
            (Reachable(d) /\ tree[d].data.is_dir) =>
              ~HasKey(branches, PathOfId(d)))

C19_Witness ==
  /\ ReturnedTree
  /\ \E d, e \in Ids :
       /\ d # e
       /\ PathOfId(d) = PathOfId(e)
       /\ Reachable(d) /\ Reachable(e)
       /\ tree[d].data.is_dir /\ tree[e].data.is_dir
       /\ tree[d].children # <<>>

====
